---- MODULE Spec2Model ----
(***************************************************************************)
(* Model of the hyperstream-sdk request/response dispatch pipeline:       *)
(* Fetch (src/fetch.ts), HyperstreamApiError (src/errors.ts) and          *)
(* HyperstreamClient (client.ts): executeRequest, the transport proxy,    *)
(* normalizeTransportError, the facade methods and the searchTokens       *)
(* async generator.                                                        *)
(*                                                                         *)
(* JavaScript values are tagged records: every value has a field t naming *)
(* its type, so that values of different types can be compared.           *)
(***************************************************************************)
EXTENDS Integers, Sequences, FiniteSets, TLC

VARIABLES client, task, fetchCalls

vars == <<client, task, fetchCalls>>

(***************************************************************************)
(* Bounds of the model.                                                    *)
(***************************************************************************)
MaxPulls == 4

\* The interceptors of each kind a client gets registered.
MaxInterceptors == 1

\* The next() calls of each of two consumers reading at once.
MaxConcurrentPulls == 2

(***************************************************************************)
(* JavaScript values.                                                      *)
(***************************************************************************)
Undefined == [t |-> "undefined"]
Null == [t |-> "null"]
BigInt == [t |-> "bigint"]
Str(s) == [t |-> "string", v |-> s]
Num(n) == [t |-> "number", v |-> n]
Bool(b) == [t |-> "boolean", v |-> b]
Obj(f) == [t |-> "object", f |-> f]
Arr(q) == [t |-> "array", v |-> q]
EmptyObj == Obj(<<>>)

Nullish(v) == v.t \in {"undefined", "null"}

\* ToBoolean: what `a || b` and `!a` test.
Truthy(v) ==
  CASE v.t \in {"undefined", "null"} -> FALSE
    [] v.t = "string" -> v.v # ""
    [] v.t = "number" -> v.v # 0
    [] v.t = "boolean" -> v.v
    [] OTHER -> TRUE

\* a || b
OrElse(a, b) == IF Truthy(a) THEN a ELSE b

\* a ?? b
Coalesce(a, b) == IF Nullish(a) THEN b ELSE a

\* v.k for a v that is neither undefined nor null: own fields of an object,
\* undefined on a primitive.
Get(v, k) == IF v.t = "object" /\ k \in DOMAIN v.f THEN v.f[k] ELSE Undefined

\* v?.k
OptGet(v, k) == IF Nullish(v) THEN Undefined ELSE Get(v, k)

\* { ...o, k: x }
With(o, k, x) == Obj([n \in DOMAIN o.f \cup {k} |-> IF n = k THEN x ELSE o.f[n]])

(***************************************************************************)
(* Errors.                                                                 *)
(***************************************************************************)
JsError(m) == [t |-> "Error", message |-> Str(m)]
TypeError(m) == [t |-> "TypeError", message |-> Str(m)]

\* new HyperstreamApiError(params).  site stands for the identity of the
\* object made: it names the `new` expression that made it, and no `new`
\* expression is evaluated twice in one call, so two errors of a call are
\* the same object exactly when they have the same site.
HyperstreamApiError(params) ==
  [t |-> "HyperstreamApiError",
   site |-> params.site,
   message |-> params.message,
   status |-> params.status,
   code |-> params.code,
   details |-> params.details,
   requestId |-> Coalesce(params.requestId, Null),
   causeResponseBody |-> params.causeResponseBody]

\* error instanceof HyperstreamApiError
IsApiError(e) == e.t = "HyperstreamApiError"

\* error instanceof Error
IsError(e) == e.t \in {"Error", "TypeError", "HyperstreamApiError"}

\* Completion records of an async function: it returned a value or threw.
Return(v) == [kind |-> "return", value |-> v]
Throw(e) == [kind |-> "throw", value |-> e]
Pending == [kind |-> "none", value |-> Undefined]

(***************************************************************************)
(* Fetch (src/fetch.ts).                                                   *)
(***************************************************************************)
\* A Response of the injected fetch: status, statusText, the value of its
\* x-request-id header (Null when the header is not set, as Headers.get
\* gives) and its body text: empty, not JSON, or the JSON text of a value.
Response(status, statusText, requestId, body) ==
  [status |-> status, statusText |-> statusText, requestId |-> requestId,
   body |-> body]

EmptyBody == [kind |-> "empty"]
InvalidBody == [kind |-> "invalid"]
JsonBody(v) == [kind |-> "json", value |-> v]

\* response.ok
ResponseOk(response) == response.status \in 200..299

\* response.clone().json().catch(() => undefined)
DecodeBody(body) == IF body.kind = "json" THEN body.value ELSE Undefined

\* The tail of Fetch.request: { status, data, raw, ok }.
FetchJSONResult(response) ==
  [status |-> response.status,
   data |-> DecodeBody(response.body),
   raw |-> response,
   ok |-> ResponseOk(response)]

\* JSON.stringify(body) throws a TypeError on a BigInt.
Unserializable(v) ==
  \/ v.t = "bigint"
  \/ v.t = "object" /\ \E k \in DOMAIN v.f : v.f[k].t = "bigint"

\* The JSON text of the value v.
JsonText(v) == [t |-> "jsontext", v |-> v]

\* JSON.stringify(body): undefined for undefined; for an object, the text
\* of the object without the members whose value is undefined; the text
\* of the value otherwise.
Stringify(v) ==
  IF v.t = "undefined" THEN Undefined
  ELSE IF v.t = "object"
    THEN JsonText(Obj([k \in {n \in DOMAIN v.f : v.f[n].t # "undefined"} |->
                        v.f[k]]))
    ELSE JsonText(v)

(***************************************************************************)
(* HyperstreamClient: the dispatcher and the error normalizer.             *)
(***************************************************************************)
GenericApiMessage == Str("Hyperstream API request failed")
GenericTransportMessage == Str("Hyperstream transport request failed")
TransportErrorCode == Str("TransportError")

\* normalizeTransportError with `details: error` for `details: { error }`.
NormalizeTransportErrorBareDetails(error) ==
  IF IsApiError(error)
    THEN error
    ELSE HyperstreamApiError(
           [message |-> IF IsError(error) THEN error.message
                                          ELSE GenericTransportMessage,
            status |-> 0,
            code |-> TransportErrorCode,
            details |-> error,
            requestId |-> Undefined,
            causeResponseBody |-> Undefined,
            site |-> "normalizeTransportError"])

\* normalizeTransportError(error)
NormalizeTransportError(error) ==
  IF IsApiError(error)
    THEN error
    ELSE HyperstreamApiError(
           [message |-> IF IsError(error) THEN error.message
                                          ELSE GenericTransportMessage,
            status |-> 0,
            code |-> TransportErrorCode,
            details |-> Obj([k \in {"error"} |-> error]),
            requestId |-> Undefined,
            causeResponseBody |-> Undefined,
            site |-> "normalizeTransportError"])

\* The error of a result that is not ok, with the whole body as details
\* whatever its details field.
ApiErrorOfResultWholeBody(result) ==
  LET payload == result.data
      message == OrElse(OptGet(payload, "message"),
                   OrElse(OptGet(payload, "error"),
                     OrElse(result.raw.statusText, GenericApiMessage)))
  IN HyperstreamApiError(
       [message |-> message,
        status |-> result.status,
        code |-> Coalesce(OptGet(payload, "code"), Undefined),
        details |-> payload,
        requestId |-> result.raw.requestId,
        causeResponseBody |-> payload,
        site |-> "executeRequest"])

\* The error of a result that is not ok, the error field of the body
\* preferred to its message field.
ApiErrorOfResultErrorFirst(result) ==
  LET payload == result.data
      message == OrElse(OptGet(payload, "error"),
                   OrElse(OptGet(payload, "message"),
                     OrElse(result.raw.statusText, GenericApiMessage)))
  IN HyperstreamApiError(
       [message |-> message,
        status |-> result.status,
        code |-> Coalesce(OptGet(payload, "code"), Undefined),
        details |-> Coalesce(OptGet(payload, "details"), payload),
        requestId |-> result.raw.requestId,
        causeResponseBody |-> payload,
        site |-> "executeRequest"])

\* The error executeRequest builds from a result that is not ok.
ApiErrorOfResult(result) ==
  LET payload == result.data
      message == OrElse(OptGet(payload, "message"),
                   OrElse(OptGet(payload, "error"),
                     OrElse(result.raw.statusText, GenericApiMessage)))
  IN HyperstreamApiError(
       [message |-> message,
        status |-> result.status,
        code |-> Coalesce(OptGet(payload, "code"), Undefined),
        details |-> Coalesce(OptGet(payload, "details"), payload),
        requestId |-> result.raw.requestId,
        causeResponseBody |-> payload,
        site |-> "executeRequest"])

\* executeRequest returning `result.data ?? null`.
ExecuteRequestNullDefault(result) ==
  IF ~result.ok THEN Throw(ApiErrorOfResult(result))
  ELSE Return(Coalesce(result.data, Null))

\* executeRequest after the transport call returned result.
ExecuteRequest(result) ==
  IF ~result.ok THEN Throw(ApiErrorOfResult(result)) ELSE Return(result.data)

\* A transport exchange ends with a Response or with a rejection (of the
\* injected fetch, or of JSON.stringify before fetch is reached).
Responded(response) == [kind |-> "response", response |-> response]
Rejected(error) == [kind |-> "reject", error |-> error]

\* A transport whose Fetch.request awaits response.json() without the
\* catch: a body that does not parse rejects the call.
TransportProxyStrictJson(outcome) ==
  IF outcome.kind = "response"
    THEN IF outcome.response.body.kind = "json"
           THEN Return(FetchJSONResult(outcome.response))
           ELSE Throw(NormalizeTransportError(
                        JsError("Unexpected end of JSON input")))
    ELSE Throw(NormalizeTransportError(outcome.error))

\* A transport proxy without the catch: what Fetch.get / Fetch.post throws
\* reaches the dispatcher as it is.
TransportProxyRethrow(outcome) ==
  IF outcome.kind = "response"
    THEN Return(FetchJSONResult(outcome.response))
    ELSE Throw(outcome.error)

\* The function the transport proxy returns for get and post: the result
\* of Fetch.get / Fetch.post, or the normalized error.
TransportProxy(outcome) ==
  IF outcome.kind = "response"
    THEN Return(FetchJSONResult(outcome.response))
    ELSE Throw(NormalizeTransportError(outcome.error))

\* dispatchRequest: the completion of getJson / postJson for a transport
\* outcome.
DispatchRequest(outcome) ==
  LET c == TransportProxy(outcome)
  IN IF c.kind = "throw" THEN c ELSE ExecuteRequest(c.value)

(***************************************************************************)
(* HyperstreamClient: the facade methods, as the completion each gives    *)
(* for the completion c of its getJson / postJson call.                    *)
(***************************************************************************)
Quotes(c) == c
GetChains(c) == c
\* A getIntentStatus with the policy of getIntentByDeposit: null on 404.
GetIntentStatusNullOn404(c) ==
  IF c.kind = "throw" /\ IsApiError(c.value) /\ c.value.status = 404
    THEN Return(Null)
    ELSE c

GetIntentStatus(c) == c

\* getToken rethrowing a rebuilt error for the caught one.
GetTokenRebuild(c) ==
  IF c.kind = "throw" /\ IsApiError(c.value) /\ c.value.status \in {404, 400}
    THEN Return(Null)
    ELSE IF c.kind = "throw" /\ IsApiError(c.value)
      THEN Throw(HyperstreamApiError(
                   [message |-> c.value.message, status |-> c.value.status,
                    code |-> c.value.code, details |-> c.value.details,
                    requestId |-> Undefined,
                    causeResponseBody |-> c.value.causeResponseBody,
                    site |-> "getToken"]))
      ELSE c

GetToken(c) ==
  IF c.kind = "throw" /\ IsApiError(c.value) /\ c.value.status \in {404, 400}
    THEN Return(Null)
    ELSE c

\* getIntentByDeposit with the 404-or-400 test of getToken.
GetIntentByDeposit400(c) ==
  IF c.kind = "throw" /\ IsApiError(c.value) /\ c.value.status \in {404, 400}
    THEN Return(Null)
    ELSE c

GetIntentByDeposit(c) ==
  IF c.kind = "throw" /\ IsApiError(c.value) /\ c.value.status = 404
    THEN Return(Null)
    ELSE c

\* submitDeposit returning `Boolean(response.status)`.
SubmitDepositAnyStatus(c) ==
  IF c.kind = "throw" THEN c
  ELSE IF ~Truthy(c.value) THEN Return(Bool(FALSE))
  ELSE Return(Bool(Truthy(Get(c.value, "status"))))

SubmitDeposit(c) ==
  IF c.kind = "throw" THEN c
  ELSE IF ~Truthy(c.value) THEN Return(Bool(FALSE))
  ELSE Return(Bool(Get(c.value, "status") = Str("accepted")))

Facade(name, c) ==
  CASE name = "quotes" -> Quotes(c)
    [] name = "getToken" -> GetToken(c)
    [] name = "getChains" -> GetChains(c)
    [] name = "getIntentStatus" -> GetIntentStatus(c)
    [] name = "getIntentByDeposit" -> GetIntentByDeposit(c)
    [] name = "submitDeposit" -> SubmitDeposit(c)
    [] name = "dispatchRequest" -> c

\* getJson sends GET without a body, postJson sends POST with the body.
MethodOf(name) ==
  IF name \in {"quotes", "searchTokens", "submitDeposit"} THEN "POST" ELSE "GET"

\* What JSON.stringify throws inside Fetch.post.
StringifyError == TypeError("Do not know how to serialize a BigInt")

\* What `page.data` throws when page is undefined or null.
PageAccessError == TypeError("Cannot read properties of undefined (reading 'data')")

(***************************************************************************)
(* Strings, headers and the construction of a request.  A string that is  *)
(* taken apart by the code (a path, a base address, an identifier) is a   *)
(* sequence of pieces: "/", "?", "&" and "=" are pieces of their own, an  *)
(* identifier is given character by character.  A header record is a      *)
(* function from header names to values.                                   *)
(***************************************************************************)
NoHeaders == <<>>

\* { ...a, ...b }
Spread(a, b) ==
  [k \in DOMAIN a \cup DOMAIN b |-> IF k \in DOMAIN b THEN b[k] ELSE a[k]]

\* s.replace(/\/+$/, "")
RECURSIVE StripTrailingSlashes(_)
StripTrailingSlashes(s) ==
  IF s # <<>> /\ s[Len(s)] = "/"
    THEN StripTrailingSlashes(SubSeq(s, 1, Len(s) - 1))
    ELSE s

\* The fields the constructors of HyperstreamClient and Fetch set: baseURL,
\* headers and the two lists of interceptors, empty at first.
\* config.userAgent is "" when it is not given.
Constructor(config) ==
  LET stripped == StripTrailingSlashes(config.baseUrl)
      normalizedBase == IF stripped # <<>> THEN stripped ELSE config.baseUrl
      headers == IF config.userAgent # ""
                   THEN Spread(config.headers,
                               [k \in {"User-Agent"} |-> config.userAgent])
                   ELSE config.headers
  IN [baseURL |-> normalizedBase, headers |-> headers,
      requestInterceptors |-> <<>>, responseInterceptors |-> <<>>]

\* encodeURIComponent, piece by piece: the reserved characters are escaped.
EncodeURIComponent(s) ==
  [i \in 1..Len(s) |->
     CASE s[i] = "/" -> "%2F"
       [] s[i] = "?" -> "%3F"
       [] s[i] = "&" -> "%26"
       [] s[i] = "=" -> "%3D"
       [] s[i] = " " -> "%20"
       [] OTHER -> s[i]]

HexDigits ==
  {"0", "1", "2", "3", "4", "5", "6", "7", "8", "9",
   "a", "b", "c", "d", "e", "f", "A", "B", "C", "D", "E", "F"}

\* An isHexLike that looks at the 0x prefix only.
IsHexLikePrefixOnly(value) ==
  /\ Len(value) >= 3
  /\ value[1] = "0"
  /\ value[2] = "x"

\* isHexLike(value): /^0x[0-9a-fA-F]+$/
IsHexLike(value) ==
  /\ Len(value) >= 3
  /\ value[1] = "0"
  /\ value[2] = "x"
  /\ \A i \in 3..Len(value) : value[i] \in HexDigits

\* String(value) of a query value.
StringOf(v) ==
  CASE v.t = "string" -> v.v
    [] v.t = "number" -> ToString(v.v)
    [] OTHER -> v.t

\* The query string of the entries of query that are neither undefined nor
\* null, in their order: k=v joined by &.
RECURSIVE QueryString(_)
QueryString(query) ==
  IF query = <<>> THEN <<>>
  ELSE LET rest == QueryString(Tail(query))
           e == Head(query)
       IN IF Nullish(e.value) THEN rest
          ELSE <<e.key, "=", StringOf(e.value)>>
               \o (IF rest = <<>> THEN <<>> ELSE <<"&">> \o rest)

\* A ClientRequestConfig.  method is "" and query is NoQuery when they are
\* not given; headers is NoHeaders when not given.
NoQuery == [given |-> FALSE, entries |-> <<>>]
Query(entries) == [given |-> TRUE, entries |-> entries]

RequestConfig(path, method, body, query, headers) ==
  [path |-> path, method |-> method, body |-> body, query |-> query,
   headers |-> headers]

\* buildPathWithQuery(path, query)
BuildPathWithQuery(path, query) ==
  LET normalizedPath ==
        IF path # <<>> /\ path[1] = "/" THEN path ELSE <<"/">> \o path
      queryString == QueryString(query.entries)
  IN IF ~query.given THEN normalizedPath
     ELSE IF queryString # <<>> THEN normalizedPath \o <<"?">> \o queryString
     ELSE normalizedPath

\* The arguments Fetch.request gets from Fetch.get, post, put and delete:
\* the url and the init with method, body and headers.
FetchGet(url, init) ==
  [url |-> url,
   init |-> [method |-> "GET", body |-> Undefined, headers |-> init.headers]]

\* A Fetch.post that sets its Content-Type over the one of the call.
FetchPostForceJson(url, body, init) ==
  [url |-> url,
   init |-> [method |-> "POST", body |-> Stringify(body),
             headers |-> Spread(init.headers,
                                [k \in {"Content-Type"} |-> "application/json"])]]

FetchPost(url, body, init) ==
  [url |-> url,
   init |-> [method |-> "POST", body |-> Stringify(body),
             headers |-> Spread([k \in {"Content-Type"} |-> "application/json"],
                                init.headers)]]

FetchPut(url, body, init) ==
  [url |-> url,
   init |-> [method |-> "PUT", body |-> Stringify(body),
             headers |-> Spread([k \in {"Content-Type"} |-> "application/json"],
                                init.headers)]]

FetchDelete(url, init) ==
  [url |-> url,
   init |-> [method |-> "DELETE", body |-> Undefined, headers |-> init.headers]]

\* A Fetch.request that spreads the default headers over the ones of the
\* call.
FetchRequestDefaultsWin(c, args) ==
  [url |-> IF c.baseURL # <<>> THEN c.baseURL \o args.url ELSE args.url,
   method |-> args.init.method,
   body |-> args.init.body,
   headers |-> Spread(args.init.headers, c.headers)]

\* Fetch.request up to the loop over the request interceptors: fullUrl and
\* finalInit.
FetchRequest(c, args) ==
  [url |-> IF c.baseURL # <<>> THEN c.baseURL \o args.url ELSE args.url,
   method |-> args.init.method,
   body |-> args.init.body,
   headers |-> Spread(c.headers, args.init.headers)]

\* The method executeRequest uses: config.method ?? "GET".
MethodOfConfig(config) == IF config.method = "" THEN "GET" ELSE config.method

\* executeRequest up to the transport call: the Accept header is put under
\* the headers of the config; GET goes to transport.get, every other
\* method to transport.post with the body.
TransportCall(path, config) ==
  LET headers == Spread([k \in {"Accept"} |-> "application/json"],
                        config.headers)
  IN IF MethodOfConfig(config) = "GET"
       THEN FetchGet(path, [headers |-> headers])
       ELSE FetchPost(path, config.body, [headers |-> headers])

\* dispatchRequest up to the transport call.
DispatchCall(config) ==
  TransportCall(BuildPathWithQuery(config.path, config.query), config)

\* JSON.stringify throws inside the transport call of config.
StringifyThrows(config) ==
  MethodOfConfig(config) # "GET" /\ Unserializable(config.body)

\* getJson(path)
GetJson(path) == RequestConfig(path, "GET", Undefined, NoQuery, NoHeaders)

\* postJson(path, body)
PostJson(path, body) == RequestConfig(path, "POST", body, NoQuery, NoHeaders)

\* The request config each facade method hands to dispatchRequest.  The
\* request of getToken is [chainId, identifier], of getIntentStatus
\* [intent], of getIntentByDeposit [chainId, txHash].
ConfigOf(o) ==
  CASE o.name = "quotes" -> PostJson(<<"/", "v1", "/", "quotes">>, o.request)
    [] o.name = "getToken" ->
         GetJson(<<"/", "v1", "/", "tokens", "/", ToString(o.request.chainId), "/">>
                 \o (IF IsHexLike(o.request.identifier)
                       THEN <<>> ELSE <<"symbol", "/">>)
                 \o EncodeURIComponent(o.request.identifier))
    [] o.name = "searchTokens" ->
         PostJson(<<"/", "v1", "/", "tokens", "/", "search">>, o.request)
    [] o.name = "getChains" -> GetJson(<<"/", "v1", "/", "chains">>)
    [] o.name = "getIntentStatus" ->
         GetJson(<<"/", "v1", "/", "intent", "/">>
                 \o EncodeURIComponent(o.request.intent))
    [] o.name = "getIntentByDeposit" ->
         GetJson(<<"/", "v1", "/", "intent", "/", "by-deposit", "/",
                   ToString(o.request.chainId), "/">>
                 \o EncodeURIComponent(o.request.txHash))
    [] o.name = "submitDeposit" ->
         PostJson(<<"/", "v1", "/", "deposits", "/", "submit">>, o.request)

(***************************************************************************)
(* Inputs: the calls of the consumer and the answers of the injected      *)
(* fetch.                                                                  *)
(***************************************************************************)
\* The logical tasks of the calling code; each issues one facade call.
Tasks == {1, 2}

TokA == Arr(<<Str("tokenA")>>)
TokB == Arr(<<Str("tokenB")>>)
NoTokens == Arr(<<>>)

QuoteRequests ==
  {Obj([k \in {"amount"} |-> Str("0x10")]),
   Obj([k \in {"amount"} |-> BigInt])}

SubmitDepositRequests ==
  {Obj([k \in {"txHash"} |-> Str("0x02")]),
   Obj([k \in {"txHash"} |-> BigInt])}

SearchTokensRequests ==
  {Obj("q" :> Str("USDC") @@ "limit" :> Num(1)
       @@ "chainIds" :> Arr(<<Num(42161)>>)),
   Obj("q" :> Str("USDC") @@ "cursor" :> Num(7)),
   Obj("q" :> Str("USDC") @@ "limit" :> BigInt)}

Op(name, request) == [name |-> name, request |-> request]

\* Addresses, a symbol with a character that is escaped in a path, and
\* identifiers that miss the hex pattern by little: no digit, a character
\* that is no hex digit, a capital X.
Identifiers ==
  {<<"0", "x", "0", "2">>, <<"0", "x", "A", "b">>, <<"U", "S", "D", "/", "C">>,
   <<"0", "x">>, <<"0", "x", "0", "Z">>, <<"0", "X", "0", "2">>}

AsyncOps ==
  {Op("getChains", Undefined),
   Op("getIntentStatus", [intent |-> <<"0", "x", "d", "e">>]),
   Op("getIntentByDeposit",
      [chainId |-> 42161, txHash |-> <<"0", "x", "0", "2">>])}
  \cup {Op("getToken", [chainId |-> 42161, identifier |-> i]) :
          i \in Identifiers}
  \cup {Op("quotes", r) : r \in QuoteRequests}
  \cup {Op("submitDeposit", r) : r \in SubmitDepositRequests}

ErrorBodies ==
  {EmptyBody,
   InvalidBody,
   JsonBody(Null),
   JsonBody(Str("plain")),
   JsonBody(EmptyObj),
   JsonBody(Obj("message" :> Str("Boom") @@ "code" :> Str("ServerError"))),
   JsonBody(Obj([k \in {"error"} |-> Str("Bad")])),
   JsonBody(Obj("message" :> Str("") @@ "error" :> Str("Bad")
                @@ "details" :> Str("why"))),
   JsonBody(Obj("message" :> Str("Boom") @@ "error" :> Str("Bad"))),
   JsonBody(Obj("code" :> Null @@ "details" :> Null)),
   JsonBody(Obj("code" :> Str("") @@ "name" :> Str("E")
                @@ "details" :> EmptyObj))}

SuccessBodies ==
  {EmptyBody,
   InvalidBody,
   JsonBody(Null),
   JsonBody(Str("plain")),
   JsonBody(EmptyObj),
   JsonBody(Obj([k \in {"status"} |-> Str("accepted")])),
   JsonBody(Obj([k \in {"status"} |-> Str("pending")])),
   JsonBody(Obj("data" :> TokA @@ "cursor" :> Num(99))),
   JsonBody(Obj("data" :> NoTokens @@ "cursor" :> Num(0))),
   JsonBody(Obj([k \in {"data"} |-> TokB])),
   JsonBody(Obj("data" :> TokA @@ "cursor" :> Null)),
   JsonBody(Obj([k \in {"cursor"} |-> Num(5)]))}

FailureStatuses == {199, 300, 400, 404, 500}

Responses ==
  {Response(200, Str("OK"), Null, b) : b \in SuccessBodies}
  \cup {Response(299, Str(""), Str("req-1"), b) :
          b \in {EmptyBody, JsonBody(Obj([k \in {"data"} |-> TokB]))}}
  \cup {Response(st, txt, rid, b) :
          st \in FailureStatuses, txt \in {Str(""), Str("Server Error")},
          rid \in {Null, Str("req-1")}, b \in ErrorBodies}

\* What the injected fetch may reject with: an Error, a value that is not an
\* Error, a HyperstreamApiError.
Rejections ==
  {JsError("network down"),
   Str("boom"),
   HyperstreamApiError([message |-> Str("from fetch"), status |-> 404,
                        code |-> Str("Custom"), details |-> Undefined,
                        requestId |-> Undefined,
                        causeResponseBody |-> Undefined,
                        site |-> "fetch"])}

\* The configuration of the tests.
TestConfig ==
  [baseUrl |-> <<"https://api.test.hyperstream.xyz">>,
   headers |-> [k \in {"x-app-id"} |-> "sdk-tests"],
   userAgent |-> ""]

\* The configurations a client is built with: the one of the tests; one
\* with trailing slashes on the base address, a user agent and default
\* headers that meet the automatic ones; one whose base address is a lone
\* slash, without headers.
ClientConfigs ==
  {TestConfig,
   [baseUrl |-> <<"https://api.test.hyperstream.xyz", "/", "/">>,
    headers |-> ("x-app-id" :> "sdk-tests" @@ "Accept" :> "text/html"
                 @@ "Content-Type" :> "text/plain" @@ "User-Agent" :> "old"),
    userAgent |-> "sdk/1"],
   [baseUrl |-> <<"/">>, headers |-> NoHeaders, userAgent |-> ""]}

\* Paths with no, one and two leading slashes.
Paths ==
  {<<"v1", "/", "chains">>, <<"/", "v1", "/", "chains">>,
   <<"/", "/", "v1", "/", "chains">>}

\* Headers given with a call: none, one that meets a default header, ones
\* that meet the automatic headers, one that differs from an automatic
\* header in case only.
CallHeaders ==
  {NoHeaders,
   [k \in {"x-app-id"} |-> "per-call"],
   ("Accept" :> "text/plain" @@ "Content-Type" :> "text/csv"),
   [k \in {"accept"} |-> "text/plain"]}

Bodies ==
  {Obj([k \in {"amount"} |-> Str("0x10")]),
   Obj("amount" :> Str("0x10") @@ "memo" :> Undefined),
   BigInt}

Queries ==
  {NoQuery,
   Query(<<[key |-> "limit", value |-> Num(5)],
           [key |-> "skip", value |-> Undefined],
           [key |-> "q", value |-> Str("usd")]>>)}

\* The request configs handed to dispatchRequest.
RequestConfigs ==
  {RequestConfig(p, m, b, q, h) :
     p \in Paths, m \in {"", "GET", "POST", "PUT", "DELETE"}, b \in Bodies,
     q \in Queries, h \in CallHeaders}

\* The calls of the get, post, put and delete HyperstreamClient inherits
\* from Fetch: the method name, the url, the body and the init.
FetchMethods == {"get", "post", "put", "delete"}

FetchOps ==
  {Op(m, [url |-> u, body |-> b, init |-> [headers |-> h]]) :
     m \in FetchMethods, u \in {<<"/", "v1", "/", "chains">>}, b \in Bodies,
     h \in CallHeaders}

\* The answers of the injected fetch to a dispatched or direct call.
DispatchResponses ==
  {Response(200, Str("OK"), Null, JsonBody(Obj([k \in {"status"} |-> Str("accepted")]))),
   Response(500, Str("Server Error"), Str("req-1"), EmptyBody)}

\* The pages of a server that answers every search request: pages that
\* carry a cursor, and pages that end the listing.
MorePages ==
  {Response(200, Str("OK"), Null, JsonBody(Obj("data" :> TokA @@ "cursor" :> Num(99)))),
   Response(200, Str("OK"), Null, JsonBody(Obj("data" :> NoTokens @@ "cursor" :> Num(0))))}

LastPages ==
  {Response(200, Str("OK"), Null, JsonBody(Obj([k \in {"data"} |-> TokB]))),
   Response(200, Str("OK"), Null, JsonBody(Obj("data" :> TokA @@ "cursor" :> Null)))}

\* The search requests that can be encoded.
EncodableRequests == {r \in SearchTokensRequests : ~Unserializable(r)}

\* The lookups two callers repeat, and the answers of the server to them.
LookupOps ==
  {Op("getToken", [chainId |-> 42161, identifier |-> i]) : i \in Identifiers}
  \cup {Op("getIntentByDeposit",
            [chainId |-> 42161, txHash |-> <<"0", "x", "0", "2">>])}

LookupResponses ==
  {Response(200, Str("OK"), Null, JsonBody(Obj([k \in {"symbol"} |-> Str("USDC")]))),
   Response(200, Str("OK"), Null, EmptyBody),
   Response(404, Str("Not Found"), Null, EmptyBody),
   Response(404, Str("Not Found"), Str("req-1"),
            JsonBody(Obj([k \in {"message"} |-> Str("no such token")]))),
   Response(400, Str(""), Null, JsonBody(Obj([k \in {"error"} |-> Str("Bad")]))),
   Response(500, Str("Server Error"), Str("req-1"), InvalidBody)}

\* An interceptor is an async function the caller registers.  A request
\* interceptor returns the request it is given, returns it with one header
\* set, or throws; a response interceptor returns the response it is given
\* or throws.
PassThrough == [kind |-> "pass"]
SetHeader(name, value) == [kind |-> "setHeader", name |-> name, value |-> value]
Throwing(error) == [kind |-> "throw", error |-> error]

\* What an interceptor may throw: an Error, a value that is not an Error,
\* a HyperstreamApiError.
InterceptorErrors ==
  {JsError("blocked"),
   Str("denied"),
   HyperstreamApiError([message |-> Str("no session"), status |-> 401,
                        code |-> Str("Unauthorized"), details |-> Undefined,
                        requestId |-> Undefined,
                        causeResponseBody |-> Undefined,
                        site |-> "interceptor"])}

\* The interceptors callers register.
RequestInterceptors ==
  {SetHeader("x-trace", "1")} \cup {Throwing(e) : e \in InterceptorErrors}

ResponseInterceptors ==
  {PassThrough} \cup {Throwing(e) : e \in InterceptorErrors}

\* The calls issued on a client with interceptors, and the answers of the
\* server to them.
InterceptedOps == {Op("getChains", Undefined)}

InterceptedSearches == {Obj([k \in {"q"} |-> Str("USDC")])}

InterceptedRejections == {JsError("network down")}

InterceptedResponses ==
  {Response(200, Str("OK"), Null, JsonBody(Obj("data" :> TokA @@ "cursor" :> Num(99)))),
   Response(200, Str("OK"), Null, JsonBody(Obj([k \in {"data"} |-> TokB])))}

(***************************************************************************)
(* State.  task[t] is the call of task t: pc is where it stands           *)
(*   idle            no call issued yet                                    *)
(*   awaitFetch      suspended in `await this.fetchImpl(...)`              *)
(*   awaitRequestInterceptor, awaitResponseInterceptor                     *)
(*                   suspended in `await interceptor(...)`; held is the    *)
(*                   completion of the awaited promise and next the index  *)
(*                   of the interceptor the loop takes after it            *)
(*   settled         the async method returned or threw (result)           *)
(*   suspendedStart  searchTokens generator created, body not entered      *)
(*   suspendedYield  generator suspended at `yield page.data`              *)
(*   completed       generator returned or threw                           *)
(* cursor and page are the locals of searchTokens; pulls counts the       *)
(* next() calls of the consumer and pullResults lists how they settled;   *)
(* outcomes lists the transport outcomes of the call and dispatched is    *)
(* the completion of its last getJson / postJson.  fetchCalls is the log  *)
(* of the calls of the injected fetch.  stopped records that the consumer *)
(* ended the generator with return().  transportCalls counts the calls of *)
(* this.transport.get / post made for the call.  client holds the fields  *)
(* the constructor set, the lists of interceptors among them.              *)
(***************************************************************************)

IdleTask ==
  [pc |-> "idle", op |-> Op("none", Undefined), cursor |-> Undefined,
   page |-> Undefined, pulls |-> 0, pullResults |-> <<>>, outcomes |-> <<>>,
   dispatched |-> Pending, result |-> Pending, stopped |-> FALSE,
   transportCalls |-> 0, held |-> Pending, next |-> 0]

Init ==
  /\ client = Constructor(TestConfig)
  /\ task = [t \in Tasks |-> IdleTask]
  /\ fetchCalls = <<>>

\* The call of fetchImpl Fetch.request makes for task t with args.
FetchCallOf(t, args) ==
  LET r == FetchRequest(client, args)
  IN [task |-> t, url |-> r.url, method |-> r.method, body |-> r.body,
      headers |-> r.headers]

\* The call of fetchImpl made for task t by the dispatch of config.
FetchCall(t, config) == FetchCallOf(t, DispatchCall(config))

\* A step of a generator gives its next state g and the fetch calls it made.
Step(g, sent) == [g |-> g, sent |-> sent]

\* Settling of next() requests: yielded value, done, or rejection.
Yielded(v) == [kind |-> "yield", value |-> v]
Done == [kind |-> "done", value |-> Undefined]
Failed(e) == [kind |-> "throw", value |-> e]

\* The requests queued behind the one just settled find the generator
\* completed and resolve as done.
DrainDone(results, pulls) ==
  results \o [i \in 1..(pulls - Len(results)) |-> Done]

\* The running generator throws e.
GenThrow(g, e) ==
  [g EXCEPT !.pc = "completed",
            !.pullResults = DrainDone(Append(@, Failed(e)), g.pulls)]

\* The running generator returns.
GenFinish(g) ==
  [g EXCEPT !.pc = "completed",
            !.pullResults = DrainDone(Append(@, Done), g.pulls)]

\* interceptor(fullUrl, finalInit): the completion of the promise it returns.
CallRequestInterceptor(interceptor, req) ==
  CASE interceptor.kind = "throw" -> Throw(interceptor.error)
    [] interceptor.kind = "setHeader" ->
         Return([req EXCEPT !.headers =
                   Spread(@, [k \in {interceptor.name} |-> interceptor.value])])
    [] interceptor.kind = "pass" -> Return(req)

\* interceptor(response): the completion of the promise it returns.
CallResponseInterceptor(interceptor, response) ==
  IF interceptor.kind = "throw" THEN Throw(interceptor.error)
                                ELSE Return(response)

\* The loop of Fetch.request over the request interceptors, entered at the
\* n-th of them with the request req: the interceptor is called and its
\* promise awaited; after the last one fetchImpl is called with req and
\* its promise awaited.  The list is read as it is when the loop gets there.
RequestLoop(g, t, req, n) ==
  IF n <= Len(client.requestInterceptors)
    THEN Step([g EXCEPT !.pc = "awaitRequestInterceptor",
                        !.held = CallRequestInterceptor(
                                   client.requestInterceptors[n], req),
                        !.next = n + 1], <<>>)
    ELSE Step([g EXCEPT !.pc = "awaitFetch", !.held = Pending, !.next = 0],
              <<req>>)

\* A page request that posts the caller's request as it was given.
StartPageRequestCursor(g, t) ==
  LET payload == g.op.request
      config == ConfigOf(Op("searchTokens", payload))
      h == [g EXCEPT !.transportCalls = @ + 1]
  IN IF StringifyThrows(config)
       THEN LET c == DispatchRequest(Rejected(StringifyError))
            IN Step(GenThrow([h EXCEPT !.outcomes = Append(@, Rejected(StringifyError)),
                                       !.dispatched = c], c.value), <<>>)
       ELSE RequestLoop(h, t, FetchCall(t, config), 1)

\* The top of the do-body up to the await of fetch: payload is built with
\* the current cursor and posted.
StartPage(g, t) ==
  LET payload == With(g.op.request, "cursor", g.cursor)
      config == ConfigOf(Op("searchTokens", payload))
      h == [g EXCEPT !.transportCalls = @ + 1]
  IN IF StringifyThrows(config)
       THEN LET c == DispatchRequest(Rejected(StringifyError))
            IN Step(GenThrow([h EXCEPT !.outcomes = Append(@, Rejected(StringifyError)),
                                       !.dispatched = c], c.value), <<>>)
       ELSE RequestLoop(h, t, FetchCall(t, config), 1)

\* A loop that takes a null cursor for a cursor: `cursor = page.cursor`.
ResumeAfterYieldNullCursor(g, t) ==
  LET cursor == Get(g.page, "cursor")
  IN IF cursor # Undefined
       THEN StartPage([g EXCEPT !.cursor = cursor], t)
       ELSE Step(GenFinish([g EXCEPT !.cursor = cursor]), <<>>)

\* A loop that stops after two pages whatever the cursor.
ResumeAfterYieldPageLimit(g, t) ==
  LET cursor == Coalesce(Get(g.page, "cursor"), Undefined)
  IN IF cursor # Undefined /\ Len(g.outcomes) < 2
       THEN StartPage([g EXCEPT !.cursor = cursor], t)
       ELSE Step(GenFinish([g EXCEPT !.cursor = cursor]), <<>>)

\* The loop condition written `while (cursor)`.
ResumeAfterYieldTruthy(g, t) ==
  LET cursor == Coalesce(Get(g.page, "cursor"), Undefined)
  IN IF Truthy(cursor)
       THEN StartPage([g EXCEPT !.cursor = cursor], t)
       ELSE Step(GenFinish([g EXCEPT !.cursor = cursor]), <<>>)

\* next() on a generator suspended at the yield: the cursor advances and
\* the loop condition is tested.
ResumeAfterYield(g, t) ==
  LET cursor == Coalesce(Get(g.page, "cursor"), Undefined)
  IN IF cursor # Undefined
       THEN StartPage([g EXCEPT !.cursor = cursor], t)
       ELSE Step(GenFinish([g EXCEPT !.cursor = cursor]), <<>>)

\* A yield that goes on to request the next page without a pending next().
GenYieldPrefetch(g, t, v) ==
  ResumeAfterYield([g EXCEPT !.pc = "suspendedYield",
                             !.pullResults = Append(@, Yielded(v))], t)

\* `yield v`: the oldest pending next() resolves with v; a next() queued
\* behind it resumes the generator at once.
GenYield(g, t, v) ==
  LET y == [g EXCEPT !.pc = "suspendedYield",
                     !.pullResults = Append(@, Yielded(v))]
  IN IF Len(y.pullResults) < y.pulls
       THEN ResumeAfterYield(y, t)
       ELSE Step(y, <<>>)

\* A searchTokens that takes an empty batch for the end of the sequence.
AfterPageEndOnEmpty(g, t, c) ==
  IF c.kind = "throw" THEN Step(GenThrow(g, c.value), <<>>)
  ELSE IF Nullish(c.value) THEN Step(GenThrow(g, PageAccessError), <<>>)
  ELSE IF Get(c.value, "data") = Arr(<<>>) THEN Step(GenFinish(g), <<>>)
  ELSE GenYield([g EXCEPT !.page = c.value], t, Get(c.value, "data"))

\* A searchTokens that ends the sequence on a failed page instead of
\* throwing.
AfterPageSwallow(g, t, c) ==
  IF c.kind = "throw" THEN Step(GenFinish(g), <<>>)
  ELSE IF Nullish(c.value) THEN Step(GenThrow(g, PageAccessError), <<>>)
  ELSE GenYield([g EXCEPT !.page = c.value], t, Get(c.value, "data"))

\* The body of searchTokens after postJson completed with c.
AfterPage(g, t, c) ==
  IF c.kind = "throw" THEN Step(GenThrow(g, c.value), <<>>)
  ELSE IF Nullish(c.value) THEN Step(GenThrow(g, PageAccessError), <<>>)
  ELSE GenYield([g EXCEPT !.page = c.value], t, Get(c.value, "data"))

(***************************************************************************)
(* Actions.                                                                *)
(***************************************************************************)
\* A facade call that answers from the result of an earlier call of the
\* same method with the same arguments, without a transport call.
CallCached(t, o) ==
  /\ task[t].pc = "idle"
  /\ IF \E u \in Tasks : task[u].pc = "settled" /\ task[u].op = o
       THEN LET u == CHOOSE u \in Tasks : task[u].pc = "settled" /\ task[u].op = o
            IN /\ task' = [task EXCEPT ![t] =
                     [@ EXCEPT !.pc = "settled", !.op = o,
                               !.result = task[u].result]]
               /\ UNCHANGED fetchCalls
       ELSE /\ task' = [task EXCEPT ![t] =
                     [@ EXCEPT !.pc = "awaitFetch", !.op = o,
                               !.transportCalls = @ + 1]]
            /\ fetchCalls' = Append(fetchCalls, FetchCall(t, ConfigOf(o)))
  /\ UNCHANGED client

\* Task t calls one of the async facade methods: the method runs up to its
\* first await inside Fetch.request, or fails before it when the body
\* cannot be encoded.
Call(t, o) ==
  /\ task[t].pc = "idle"
  /\ IF StringifyThrows(ConfigOf(o))
       THEN LET c == DispatchRequest(Rejected(StringifyError))
            IN /\ task' = [task EXCEPT ![t] =
                     [@ EXCEPT !.pc = "settled", !.op = o,
                               !.transportCalls = @ + 1,
                               !.outcomes = <<Rejected(StringifyError)>>,
                               !.dispatched = c,
                               !.result = Facade(o.name, c)]]
               /\ UNCHANGED fetchCalls
       ELSE LET s == RequestLoop([task[t] EXCEPT !.op = o,
                                                 !.transportCalls = @ + 1],
                                 t, FetchCall(t, ConfigOf(o)), 1)
            IN /\ task' = [task EXCEPT ![t] = s.g]
               /\ fetchCalls' = fetchCalls \o s.sent
  /\ UNCHANGED client

\* Task t calls searchTokens: the generator object is created, its body
\* does not run.
CallSearchTokens(t, request) ==
  /\ task[t].pc = "idle"
  /\ task' = [task EXCEPT ![t] =
       [@ EXCEPT !.pc = "suspendedStart", !.op = Op("searchTokens", request)]]
  /\ UNCHANGED <<client, fetchCalls>>

\* The consumer of task t calls next() on its generator.
Pull(t) ==
  /\ task[t].op.name = "searchTokens"
  /\ task[t].pulls < MaxPulls
  /\ LET g == [task[t] EXCEPT !.pulls = @ + 1]
         s == CASE g.pc = "suspendedStart" ->
                     StartPage([g EXCEPT !.cursor = Get(g.op.request, "cursor")], t)
                [] g.pc = "suspendedYield" -> ResumeAfterYield(g, t)
                [] g.pc \in {"awaitFetch", "awaitRequestInterceptor",
                            "awaitResponseInterceptor"} -> Step(g, <<>>)
                [] g.pc = "completed" ->
                     Step([g EXCEPT !.pullResults = Append(@, Done)], <<>>)
     IN /\ task' = [task EXCEPT ![t] = s.g]
        /\ fetchCalls' = fetchCalls \o s.sent
  /\ UNCHANGED client

\* The consumer of task t calls return() on its suspended generator, as
\* leaving a for await loop does.
Stop(t) ==
  /\ task[t].pc \in {"suspendedStart", "suspendedYield"}
  /\ task' = [task EXCEPT ![t] = [@ EXCEPT !.pc = "completed", !.stopped = TRUE]]
  /\ UNCHANGED <<client, fetchCalls>>

\* The arguments of Fetch.request for the direct call o of get, post, put
\* or delete.
FetchArgs(o) ==
  CASE o.name = "get" -> FetchGet(o.request.url, o.request.init)
    [] o.name = "post" -> FetchPost(o.request.url, o.request.body, o.request.init)
    [] o.name = "put" -> FetchPut(o.request.url, o.request.body, o.request.init)
    [] o.name = "delete" -> FetchDelete(o.request.url, o.request.init)

\* The completion of a direct call of get, post, put or delete: the result
\* of Fetch.request, or the rejection as it is.
FetchCompletion(outcome) ==
  IF outcome.kind = "response"
    THEN Return(FetchJSONResult(outcome.response))
    ELSE Throw(outcome.error)

AfterFetchRetry(g, t, outcome) ==
  LET c == DispatchRequest(outcome)
      h == [g EXCEPT !.outcomes = Append(@, outcome), !.dispatched = c]
  IN IF c.kind = "throw" /\ g.outcomes = <<>>
       THEN Step([h EXCEPT !.transportCalls = @ + 1],
                 <<FetchCall(t, ConfigOf(g.op))>>)
       ELSE IF h.op.name = "searchTokens"
         THEN AfterPage(h, t, c)
         ELSE Step([h EXCEPT !.pc = "settled",
                             !.result = Facade(h.op.name, c)], <<>>)

\* The transport exchange of the call g of task t ends with outcome: the
\* call resumes after its await and runs to its next await, yield, return
\* or throw.
AfterFetch(g, t, outcome) ==
  LET c == DispatchRequest(outcome)
      h == [g EXCEPT !.outcomes = Append(@, outcome), !.dispatched = c]
  IN IF g.op.name \in FetchMethods
       THEN Step([g EXCEPT !.outcomes = Append(@, outcome),
                           !.pc = "settled",
                           !.result = FetchCompletion(outcome)], <<>>)
     ELSE IF h.op.name = "searchTokens"
       THEN AfterPage(h, t, c)
       ELSE Step([h EXCEPT !.pc = "settled",
                           !.result = Facade(h.op.name, c)], <<>>)

\* The loop of Fetch.request over the response interceptors, entered at
\* the n-th of them with response: the interceptor is called and its
\* promise awaited; after the last one the body is decoded and the call
\* goes on with the result.
ResponseLoop(g, t, response, n) ==
  IF n <= Len(client.responseInterceptors)
    THEN Step([g EXCEPT !.pc = "awaitResponseInterceptor",
                        !.held = CallResponseInterceptor(
                                   client.responseInterceptors[n], response),
                        !.next = n + 1], <<>>)
    ELSE AfterFetch([g EXCEPT !.held = Pending, !.next = 0], t,
                    Responded(response))

\* The injected fetch resolves with a Response.
FetchResolve(t, response) ==
  /\ task[t].pc = "awaitFetch"
  /\ LET s == ResponseLoop(task[t], t, response, 1)
     IN /\ task' = [task EXCEPT ![t] = s.g]
        /\ fetchCalls' = fetchCalls \o s.sent
  /\ UNCHANGED client

\* The injected fetch rejects.
FetchReject(t, error) ==
  /\ task[t].pc = "awaitFetch"
  /\ LET s == AfterFetch(task[t], t, Rejected(error))
     IN /\ task' = [task EXCEPT ![t] = s.g]
        /\ fetchCalls' = fetchCalls \o s.sent
  /\ UNCHANGED client

\* The promise of the interceptor task t waits for settles: its rejection
\* rejects Fetch.request, its value goes to the next turn of the loop.
InterceptorSettled(t) ==
  /\ task[t].pc \in {"awaitRequestInterceptor", "awaitResponseInterceptor"}
  /\ LET g == task[t]
         h == [g EXCEPT !.held = Pending, !.next = 0]
         s == IF g.held.kind = "throw"
                THEN AfterFetch(h, t, Rejected(g.held.value))
                ELSE IF g.pc = "awaitRequestInterceptor"
                  THEN RequestLoop(g, t, g.held.value, g.next)
                  ELSE ResponseLoop(g, t, g.held.value, g.next)
     IN /\ task' = [task EXCEPT ![t] = s.g]
        /\ fetchCalls' = fetchCalls \o s.sent
  /\ UNCHANGED client

\* addRequestInterceptor(interceptor)
AddRequestInterceptor(interceptor) ==
  /\ Len(client.requestInterceptors) < MaxInterceptors
  /\ client' = [client EXCEPT !.requestInterceptors = Append(@, interceptor)]
  /\ UNCHANGED <<task, fetchCalls>>

\* addResponseInterceptor(interceptor)
AddResponseInterceptor(interceptor) ==
  /\ Len(client.responseInterceptors) < MaxInterceptors
  /\ client' = [client EXCEPT !.responseInterceptors = Append(@, interceptor)]
  /\ UNCHANGED <<task, fetchCalls>>

\* dispatchRequest is called with config: the path is built, the transport
\* method is called, and the call waits for fetch or fails on the encoding
\* of the body.
Dispatch(t, config) ==
  /\ task[t].pc = "idle"
  /\ LET o == Op("dispatchRequest", config)
     IN IF StringifyThrows(config)
          THEN LET c == DispatchRequest(Rejected(StringifyError))
               IN /\ task' = [task EXCEPT ![t] =
                        [@ EXCEPT !.pc = "settled", !.op = o,
                                  !.transportCalls = @ + 1,
                                  !.outcomes = <<Rejected(StringifyError)>>,
                                  !.dispatched = c,
                                  !.result = Facade(o.name, c)]]
                  /\ UNCHANGED fetchCalls
          ELSE LET s == RequestLoop([task[t] EXCEPT !.op = o,
                                                    !.transportCalls = @ + 1],
                                    t, FetchCall(t, config), 1)
               IN /\ task' = [task EXCEPT ![t] = s.g]
                  /\ fetchCalls' = fetchCalls \o s.sent
  /\ UNCHANGED client

\* Task t calls get, post, put or delete on the client itself.
FetchDirect(t, o) ==
  /\ task[t].pc = "idle"
  /\ IF o.name \in {"post", "put"} /\ Unserializable(o.request.body)
       THEN /\ task' = [task EXCEPT ![t] =
                     [@ EXCEPT !.pc = "settled", !.op = o,
                               !.outcomes = <<Rejected(StringifyError)>>,
                               !.result = Throw(StringifyError)]]
            /\ UNCHANGED fetchCalls
       ELSE LET s == RequestLoop([task[t] EXCEPT !.op = o], t,
                                 FetchCallOf(t, FetchArgs(o)), 1)
            IN /\ task' = [task EXCEPT ![t] = s.g]
               /\ fetchCalls' = fetchCalls \o s.sent
  /\ UNCHANGED client

\* One caller.
Callers == {1}

Next ==
  \E t \in Callers :
    \/ \E o \in AsyncOps : Call(t, o)
    \/ \E r \in SearchTokensRequests : CallSearchTokens(t, r)
    \/ Pull(t)
    \/ Stop(t)
    \/ \E response \in Responses : FetchResolve(t, response)
    \/ \E error \in Rejections : FetchReject(t, error)

Spec == Init /\ [][Next]_vars

(***************************************************************************)
(* A searchTokens sequence read to its end: the consumer pulls as a       *)
(* `for await` loop does, without leaving the loop, and the server        *)
(* answers every request with a page.  The server hands out pages with a  *)
(* cursor only while the consumer has pulls left for the pages after      *)
(* them, and a page that ends the listing at any time.                     *)
(***************************************************************************)
ServePage(t, response) ==
  /\ response \in MorePages => Len(task[t].outcomes) + 2 < MaxPulls
  /\ FetchResolve(t, response)

NextLive ==
  \E t \in Callers :
    \/ \E r \in EncodableRequests : CallSearchTokens(t, r)
    \/ Pull(t)
    \/ \E response \in MorePages \cup LastPages : ServePage(t, response)

\* The loop of the consumer calls next() again after each batch, and the
\* promise of a fetch that is answered is settled and its continuation run.
Fairness ==
  \A t \in Callers :
    /\ WF_vars(Pull(t))
    /\ WF_vars(\E response \in MorePages \cup LastPages : ServePage(t, response))

SpecLive == Init /\ [][NextLive]_vars /\ Fairness

(***************************************************************************)
(* Two callers of one client, each issuing one lookup: the calls may      *)
(* follow each other or overlap.                                           *)
(***************************************************************************)
NextLookupTwice ==
  \E t \in Tasks :
    \/ \E o \in LookupOps : Call(t, o)
    \/ \E response \in LookupResponses : FetchResolve(t, response)
    \/ \E error \in Rejections : FetchReject(t, error)

SpecLookupTwice == Init /\ [][NextLookupTwice]_vars

(***************************************************************************)
(* The dispatcher and the inherited Fetch methods under every client      *)
(* configuration: calls of dispatchRequest with any request config, and   *)
(* direct calls of get, post, put and delete.                              *)
(***************************************************************************)
InitDispatch ==
  /\ client \in {Constructor(config) : config \in ClientConfigs}
  /\ task = [t \in Tasks |-> IdleTask]
  /\ fetchCalls = <<>>

NextDispatch ==
  \E t \in Callers :
    \/ \E config \in RequestConfigs : Dispatch(t, config)
    \/ \E o \in FetchOps : FetchDirect(t, o)
    \/ \E response \in DispatchResponses : FetchResolve(t, response)
    \/ \E error \in Rejections : FetchReject(t, error)

SpecDispatch == InitDispatch /\ [][NextDispatch]_vars

(***************************************************************************)
(* One caller of a client on which interceptors are registered at any     *)
(* time: before, between and during the calls.                             *)
(***************************************************************************)
NextInterceptors ==
  \/ \E i \in RequestInterceptors : AddRequestInterceptor(i)
  \/ \E i \in ResponseInterceptors : AddResponseInterceptor(i)
  \/ \E t \in Callers :
       \/ \E o \in InterceptedOps : Call(t, o)
       \/ \E r \in InterceptedSearches : CallSearchTokens(t, r)
       \/ Pull(t)
       \/ \E response \in InterceptedResponses : FetchResolve(t, response)
       \/ \E error \in InterceptedRejections : FetchReject(t, error)
       \/ InterceptorSettled(t)

SpecInterceptors == Init /\ [][NextInterceptors]_vars

(***************************************************************************)
(* Two callers of one client, each issuing a call or reading a search     *)
(* sequence, their transport exchanges interleaved in every way, while    *)
(* interceptors are registered on the client at any time.                  *)
(***************************************************************************)
NextConcurrent ==
  \/ \E i \in RequestInterceptors : AddRequestInterceptor(i)
  \/ \E i \in ResponseInterceptors : AddResponseInterceptor(i)
  \/ \E t \in Tasks :
       \/ \E o \in InterceptedOps : Call(t, o)
       \/ \E r \in InterceptedSearches : CallSearchTokens(t, r)
       \/ task[t].pulls < MaxConcurrentPulls /\ Pull(t)
       \/ \E response \in InterceptedResponses : FetchResolve(t, response)
       \/ \E error \in InterceptedRejections : FetchReject(t, error)
       \/ InterceptorSettled(t)

SpecConcurrent == Init /\ [][NextConcurrent]_vars

TypeOK ==
  \A t \in Tasks :
    /\ task[t].pc \in {"idle", "awaitFetch", "settled", "suspendedStart",
                       "suspendedYield", "completed",
                       "awaitRequestInterceptor", "awaitResponseInterceptor"}
    /\ task[t].pulls \in 0..MaxPulls

(***************************************************************************)
(* Vocabulary of the properties.                                           *)
(***************************************************************************)
Last(q) == q[Len(q)]

\* The number of calls of the injected fetch made for task t.
CallsOf(t) == Len(SelectSeq(fetchCalls, LAMBDA c : c.task = t))

\* The errors that reached the caller of task t.
ThrownTo(t) ==
  IF task[t].op.name = "searchTokens"
    THEN {task[t].pullResults[i].value :
            i \in {j \in 1..Len(task[t].pullResults) :
                     task[t].pullResults[j].kind = "throw"}}
    ELSE IF task[t].result.kind = "throw" THEN {task[t].result.value} ELSE {}

\* Task t has received the outcome of a transport exchange and the last one
\* is a Response.
LastIsResponse(t) ==
  /\ task[t].outcomes # <<>>
  /\ Last(task[t].outcomes).kind = "response"

LastResponse(t) == Last(task[t].outcomes).response

\* Task t's last transport exchange failed without a Response.
LastIsRejection(t) ==
  /\ task[t].outcomes # <<>>
  /\ Last(task[t].outcomes).kind = "reject"

LastRejection(t) == Last(task[t].outcomes).error

\* The JSON value the body text of a response decodes to; undefined for an
\* empty body or one that is not JSON.
Decoded(response) ==
  IF response.body.kind = "json" THEN response.body.value ELSE Undefined

\* C1: a call of quotes, getChains, getIntentStatus, getToken or
\* getIntentByDeposit whose response has a status in 200-299 returns
\* exactly the decoded JSON body of the response.
C1_SuccessReturnsBody ==
  \A t \in Tasks :
    ( /\ task[t].op.name \in {"quotes", "getChains", "getIntentStatus",
                               "getToken", "getIntentByDeposit"}
      /\ LastIsResponse(t)
      /\ LastResponse(t).status \in 200..299 )
    => task[t].result = Return(Decoded(LastResponse(t)))

C1_Witness ==
  \E t \in Tasks :
    /\ task[t].op.name = "quotes"
    /\ LastIsResponse(t)
    /\ LastResponse(t).status = 200
    /\ Decoded(LastResponse(t)) = Obj([k \in {"status"} |-> Str("accepted")])
    /\ task[t].result = Return(Obj([k \in {"status"} |-> Str("accepted")]))

\* The first non-empty string among the message field of the body, its
\* error field and the status text, the generic string when there is none.
IsAvailable(v) == v.t = "string" /\ v.v # ""

FallbackMessage(response) ==
  LET body == Decoded(response)
      field(k) == IF body.t = "object" /\ k \in DOMAIN body.f
                    THEN body.f[k] ELSE Undefined
  IN CASE IsAvailable(field("message")) -> field("message")
       [] ~IsAvailable(field("message")) /\ IsAvailable(field("error")) ->
            field("error")
       [] ~IsAvailable(field("message")) /\ ~IsAvailable(field("error"))
          /\ IsAvailable(response.statusText) -> response.statusText
       [] OTHER -> Str("Hyperstream API request failed")

\* C2: for a response whose status is outside 200-299 the dispatch throws a
\* HyperstreamApiError whose status is the HTTP status and whose message is
\* the first available (non-empty) of body.message, body.error, the status
\* text and 'Hyperstream API request failed'.
C2_NonOkThrowsApiError ==
  \A t \in Tasks :
    (LastIsResponse(t) /\ LastResponse(t).status \notin 200..299)
    => /\ task[t].dispatched.kind = "throw"
       /\ task[t].dispatched.value.t = "HyperstreamApiError"
       /\ task[t].dispatched.value.status = LastResponse(t).status
       /\ task[t].dispatched.value.message = FallbackMessage(LastResponse(t))

C2_Witness ==
  \E t \in Tasks :
    /\ LastIsResponse(t)
    /\ LastResponse(t).status = 500
    /\ Decoded(LastResponse(t)) =
         Obj("message" :> Str("") @@ "error" :> Str("Bad")
             @@ "details" :> Str("why"))
    /\ task[t].dispatched.kind = "throw"
    /\ task[t].dispatched.value.status = 500
    /\ task[t].dispatched.value.message = Str("Bad")

\* The description of a failure: the message of an Error, the value itself
\* when something else was thrown.
Description(e) ==
  IF e.t \in {"Error", "TypeError", "HyperstreamApiError"} THEN e.message ELSE e

TransportErrorOf(e, message) ==
  [t |-> "HyperstreamApiError", message |-> message, status |-> 0,
   code |-> Str("TransportError"), details |-> Obj([k \in {"error"} |-> e]),
   requestId |-> Null, causeResponseBody |-> Undefined,
   site |-> "normalizeTransportError"]

\* C3 as claimed: whenever the network call fails without a Response, the
\* caller receives a HyperstreamApiError with status 0, code
\* 'TransportError', the description of the failure as message and details
\* wrapping the failure.
C3_Original ==
  \A t \in Tasks :
    LastIsRejection(t)
    => ThrownTo(t) =
         {TransportErrorOf(LastRejection(t), Description(LastRejection(t)))}

\* C3 (amended): when the network call fails without a Response and the
\* failure is not itself a HyperstreamApiError, the caller receives a
\* HyperstreamApiError with status 0, code 'TransportError', details
\* wrapping the failure, and as message the failure's message when the
\* failure is an Error and 'Hyperstream transport request failed'
\* otherwise.
C3_TransportFailure ==
  \A t \in Tasks :
    (LastIsRejection(t) /\ LastRejection(t).t # "HyperstreamApiError")
    => ThrownTo(t) =
         {TransportErrorOf(LastRejection(t),
            IF LastRejection(t).t \in {"Error", "TypeError"}
              THEN LastRejection(t).message
              ELSE Str("Hyperstream transport request failed"))}

C3_Witness ==
  \E t \in Tasks :
    /\ task[t].op.name = "getChains"
    /\ LastIsRejection(t)
    /\ LastRejection(t) = Str("boom")
    /\ task[t].result.kind = "throw"
    /\ task[t].result.value.status = 0
    /\ task[t].result.value.message = Str("Hyperstream transport request failed")

(***************************************************************************)
(* Vocabulary of the pagination properties.                                *)
(***************************************************************************)
IsSearch(t) == task[t].op.name = "searchTokens"

\* The outcome is a successful page: a 2xx response whose body is a JSON
\* object.
IsPage(outcome) ==
  /\ outcome.kind = "response"
  /\ outcome.response.status \in 200..299
  /\ outcome.response.body.kind = "json"
  /\ outcome.response.body.value.t = "object"

PageOf(outcome) == outcome.response.body.value

\* The data of a page, undefined when the page has no data member.
DataOf(page) == IF "data" \in DOMAIN page.f THEN page.f["data"] ELSE Undefined

\* The page carries a cursor, a number as TokenSearchResponse declares it.
HasCursor(page) == "cursor" \in DOMAIN page.f /\ page.f["cursor"].t = "number"

\* The page has no cursor field.
NoCursorField(page) == "cursor" \notin DOMAIN page.f

\* The first n outcomes of task t are successful pages with a cursor.
CursoredPages(t, n) ==
  \A i \in 1..n :
    IsPage(task[t].outcomes[i]) /\ HasCursor(PageOf(task[t].outcomes[i]))

\* The batches of the first n pages of task t, as yielded values.
BatchesOf(t, n) ==
  [i \in 1..n |-> [kind |-> "yield", value |-> DataOf(PageOf(task[t].outcomes[i]))]]

EndOfSequence == [kind |-> "done", value |-> Undefined]

\* n repetitions of x.
Repeat(x, n) == [i \in 1..n |-> x]

\* C4: when the server answers a searchTokens sequence with k successful
\* pages of which only the k-th has no cursor field, the consumer receives
\* exactly k batches, batch i being the data of page i, every later pull
\* finds the sequence ended, and exactly k transport calls are made; while
\* every page received so far carried a cursor the sequence does not end
\* unless the consumer ends it.
C4_PagesUntilCursorEnds ==
  \A t \in Tasks :
    LET k == Len(task[t].outcomes) IN
    /\ ( /\ IsSearch(t) /\ k > 0
         /\ CursoredPages(t, k - 1)
         /\ IsPage(task[t].outcomes[k])
         /\ NoCursorField(PageOf(task[t].outcomes[k])) )
       => /\ task[t].pullResults =
               BatchesOf(t, k) \o Repeat(EndOfSequence, task[t].pulls - k)
          /\ CallsOf(t) = k
          /\ task[t].pc \in {"suspendedYield", "completed"}
    /\ (IsSearch(t) /\ CursoredPages(t, k) /\ ~task[t].stopped)
       => /\ task[t].pc # "completed"
          /\ \A i \in 1..Len(task[t].pullResults) :
               task[t].pullResults[i].kind = "yield"

C4_Witness ==
  \E t \in Tasks :
    /\ IsSearch(t)
    /\ Len(task[t].outcomes) = 2
    /\ IsPage(task[t].outcomes[1]) /\ IsPage(task[t].outcomes[2])
    /\ PageOf(task[t].outcomes[1]) = Obj("data" :> TokA @@ "cursor" :> Num(99))
    /\ PageOf(task[t].outcomes[2]) = Obj([k \in {"data"} |-> TokB])
    /\ task[t].pulls = 3
    /\ task[t].pullResults =
         <<[kind |-> "yield", value |-> TokA],
           [kind |-> "yield", value |-> TokB], EndOfSequence>>
    /\ CallsOf(t) = 2

\* C5: if the dispatch of the N-th page of a searchTokens sequence fails
\* after N-1 successful cursored pages, the consumer has received exactly
\* the N-1 batches of those pages, the N-th pull fails with the
\* HyperstreamApiError of that dispatch, later pulls find the sequence
\* ended and no further page is requested.
C5_FailedPageAbortsSequence ==
  \A t \in Tasks :
    LET n == Len(task[t].outcomes) IN
    ( /\ IsSearch(t) /\ n > 0
      /\ CursoredPages(t, n - 1)
      /\ task[t].dispatched.kind = "throw" )
    => /\ task[t].dispatched.value.t = "HyperstreamApiError"
       /\ task[t].pullResults =
            BatchesOf(t, n - 1)
            \o <<[kind |-> "throw", value |-> task[t].dispatched.value]>>
            \o Repeat(EndOfSequence, task[t].pulls - n)
       /\ task[t].pc = "completed"
       /\ CallsOf(t) \in {n - 1, n}
       /\ CallsOf(t) = n - 1 => n = 1

C5_Witness ==
  \E t \in Tasks :
    /\ IsSearch(t)
    /\ Len(task[t].outcomes) = 2
    /\ CursoredPages(t, 1)
    /\ task[t].outcomes[2].kind = "response"
    /\ task[t].outcomes[2].response.status = 500
    /\ Len(task[t].pullResults) = 3
    /\ task[t].pullResults[1].kind = "yield"
    /\ task[t].pullResults[2].kind = "throw"
    /\ task[t].pullResults[2].value.status = 500
    /\ task[t].pullResults[3] = EndOfSequence
    /\ CallsOf(t) = 2

\* C6: every failure that reaches the caller of a facade operation is a
\* HyperstreamApiError, whatever the transport outcome.
C6_OnlyApiErrors ==
  \A t \in Tasks : \A e \in ThrownTo(t) : e.t = "HyperstreamApiError"

\* searchTokens answered 200 with an empty body: the pull fails with the
\* TypeError of `page.data`.
C6_FailingInput ==
  \E t \in Tasks :
    /\ IsSearch(t)
    /\ Len(task[t].outcomes) = 1
    /\ task[t].outcomes[1].kind = "response"
    /\ task[t].outcomes[1].response.status = 200
    /\ task[t].outcomes[1].response.body = EmptyBody
    /\ task[t].pullResults = <<[kind |-> "throw", value |-> PageAccessError]>>

\* Task t called a lookup with an absence-as-null policy.
IsLookup(t) == task[t].op.name \in {"getToken", "getIntentByDeposit"}

\* C7 as claimed: for getToken and getIntentByDeposit a 404 response makes
\* the call return null and every other non-2xx status makes it throw.
C7_Original ==
  \A t \in Tasks :
    (IsLookup(t) /\ LastIsResponse(t)
       /\ LastResponse(t).status \notin 200..299)
    => IF LastResponse(t).status = 404
         THEN task[t].result = Return(Null)
         ELSE task[t].result.kind = "throw"

\* C7 (amended): for getToken and getIntentByDeposit a 404 response makes
\* the call return null without throwing, and every other non-2xx status
\* makes the call throw, except that getToken returns null on a 400
\* response as well.
C7_NotFoundAsNull ==
  \A t \in Tasks :
    (IsLookup(t) /\ LastIsResponse(t)
       /\ LastResponse(t).status \notin 200..299)
    => IF \/ LastResponse(t).status = 404
          \/ task[t].op.name = "getToken" /\ LastResponse(t).status = 400
         THEN task[t].result = Return(Null)
         ELSE /\ task[t].result.kind = "throw"
              /\ task[t].result.value.status = LastResponse(t).status

C7_Witness ==
  \E t \in Tasks :
    /\ task[t].op.name = "getIntentByDeposit"
    /\ LastIsResponse(t)
    /\ LastResponse(t).status = 400
    /\ task[t].result.kind = "throw"
    /\ task[t].result.value.status = 400

\* The statuses each lookup turns into null.
NullStatuses(name) == IF name = "getToken" THEN {404, 400} ELSE {404}

\* C8: a failed getToken returns null exactly when the status of the error
\* is 404 or 400 and a failed getIntentByDeposit exactly when it is 404;
\* for every other status, the transport-failure status 0 included, the
\* call throws the error of the dispatcher itself: status, code, message,
\* details and request id are those the dispatcher produced.
C8_ExactNullStatuses ==
  \A t \in Tasks :
    (IsLookup(t) /\ task[t].dispatched.kind = "throw")
    => /\ task[t].dispatched.value.t = "HyperstreamApiError"
       /\ IF task[t].dispatched.value.status \in NullStatuses(task[t].op.name)
            THEN task[t].result = Return(Null)
            ELSE task[t].result = task[t].dispatched

C8_Witness ==
  \E t \in Tasks :
    /\ task[t].op.name = "getToken"
    /\ LastIsResponse(t)
    /\ LastResponse(t).status = 500
    /\ LastResponse(t).requestId = Str("req-1")
    /\ task[t].result.kind = "throw"
    /\ task[t].result = task[t].dispatched
    /\ task[t].result.value.requestId = Str("req-1")

\* The response body is accepted: a JSON object whose status is 'accepted'.
Accepted(response) ==
  /\ response.body.kind = "json"
  /\ response.body.value.t = "object"
  /\ "status" \in DOMAIN response.body.value.f
  /\ response.body.value.f["status"] = Str("accepted")

\* C9: submitDeposit returns true exactly when the response is 2xx and its
\* decoded body has status 'accepted'; for every other 2xx response it
\* returns false without throwing; for a non-2xx response or a transport
\* failure it throws a HyperstreamApiError.
C9_SubmitDeposit ==
  \A t \in Tasks :
    (task[t].op.name = "submitDeposit" /\ task[t].outcomes # <<>>)
    => IF LastIsResponse(t) /\ LastResponse(t).status \in 200..299
         THEN task[t].result =
                [kind |-> "return",
                 value |-> [t |-> "boolean", v |-> Accepted(LastResponse(t))]]
         ELSE /\ task[t].result.kind = "throw"
              /\ task[t].result.value.t = "HyperstreamApiError"

C9_Witness ==
  \E t \in Tasks :
    /\ task[t].op.name = "submitDeposit"
    /\ LastIsResponse(t)
    /\ LastResponse(t).status = 200
    /\ LastResponse(t).body = JsonBody(Obj([k \in {"status"} |-> Str("pending")]))
    /\ task[t].result = Return(Bool(FALSE))

\* In every state of a searchTokens sequence: the calls made are at most the
\* pulls issued, and a request is in flight only while a pull waits for it.
NoCallAhead ==
  \A t \in Tasks :
    IsSearch(t)
    => /\ CallsOf(t) <= task[t].pulls
       /\ CallsOf(t) <= Len(task[t].pullResults) + 1
       /\ task[t].pc = "awaitFetch"
            => /\ Len(task[t].pullResults) < task[t].pulls
               /\ CallsOf(t) = Len(task[t].outcomes) + 1
       /\ task[t].pc # "awaitFetch" => CallsOf(t) = Len(task[t].outcomes)
                                        \/ task[t].dispatched.kind = "throw"
       /\ task[t].stopped => task[t].pc = "completed"

\* In every step of a searchTokens sequence: at most one transport call is
\* made, none by creating the sequence, none while no pull is waiting
\* unless the step is a pull, and none after the consumer ended it.
OneCallPerPull ==
  \A t \in Tasks :
    /\ CallsOf(t)' <= CallsOf(t) + 1
    /\ (IsSearch(t)' /\ task[t].pulls' = 0) => CallsOf(t)' = 0
    /\ ( /\ IsSearch(t)
         /\ Len(task[t].pullResults) = task[t].pulls
         /\ task[t].pulls' = task[t].pulls )
       => CallsOf(t)' = CallsOf(t)
    /\ (IsSearch(t) /\ task[t].stopped) => CallsOf(t)' = CallsOf(t)

\* C10: a searchTokens sequence never fetches ahead of its consumer: no
\* transport call is made before the first pull, each pull triggers at most
\* one transport call, after the consumer stops pulling no further
\* transport call is made, and at every moment the number of calls made is
\* at most the number of pulls issued.
C10_NoReadAhead == [](NoCallAhead) /\ [][OneCallPerPull]_vars

C10_Witness ==
  \E t \in Tasks :
    /\ IsSearch(t)
    /\ task[t].stopped
    /\ task[t].pulls = 2
    /\ Len(task[t].pullResults) = 2
    /\ task[t].pullResults[2].kind = "yield"
    /\ CallsOf(t) = 2

(***************************************************************************)
(* The number of transport calls.                                          *)
(***************************************************************************)
NonPaginated ==
  {"quotes", "getToken", "getChains", "getIntentStatus", "getIntentByDeposit",
   "submitDeposit"}

\* The transport exchanges of task t: the ones that ended and the one in
\* flight.
Exchanges(t) ==
  Len(task[t].outcomes) + (IF task[t].pc = "awaitFetch" THEN 1 ELSE 0)

\* C11: a call of quotes, getToken, getChains, getIntentStatus,
\* getIntentByDeposit or submitDeposit makes exactly one transport call
\* whatever its outcome; a searchTokens sequence makes exactly one transport
\* call for each page it requests; after a failed dispatch no further call
\* is made, and the injected fetch is never called more often than the
\* transport.
C11_OneTransportCall ==
  \A t \in Tasks :
    /\ CallsOf(t) <= task[t].transportCalls
    /\ task[t].transportCalls = Exchanges(t)
    /\ task[t].op.name \in NonPaginated
       => /\ task[t].transportCalls = 1
          /\ task[t].pc = "settled" => Len(task[t].outcomes) = 1
    /\ task[t].dispatched.kind = "throw"
       => /\ task[t].pc \in {"settled", "completed"}
          /\ task[t].transportCalls = Len(task[t].outcomes)

C11_Witness ==
  \E t \in Tasks :
    /\ task[t].op.name = "getToken"
    /\ task[t].pc = "settled"
    /\ task[t].dispatched.kind = "throw"
    /\ task[t].dispatched.value.status = 500
    /\ task[t].transportCalls = 1
    /\ CallsOf(t) = 1

(***************************************************************************)
(* The requests of a searchTokens sequence.                                *)
(***************************************************************************)
\* The value a server reads from a JSON text.
ParseJson(text) == text.v

\* The calls of the injected fetch made for task t, in their order.
CallsFor(t) == SelectSeq(fetchCalls, LAMBDA c : c.task = t)

\* The cursor the i-th request of task t has to carry: the one of the
\* caller's request for the first, the one of the response before it for
\* a later one; undefined stands for none.
CursorFor(t, i) ==
  IF i = 1 THEN Get(task[t].op.request, "cursor")
  ELSE Get(PageOf(task[t].outcomes[i - 1]), "cursor")

\* body is request with its cursor member replaced by cursor, and without
\* a cursor member when cursor is undefined.
SameButCursor(body, request, cursor) ==
  /\ body.t = "object"
  /\ DOMAIN body.f \ {"cursor"} = DOMAIN request.f \ {"cursor"}
  /\ \A k \in DOMAIN request.f \ {"cursor"} : body.f[k] = request.f[k]
  /\ "cursor" \in DOMAIN body.f <=> cursor # Undefined
  /\ Get(body, "cursor") = cursor

\* The requests sent so far thread the cursor and carry the other fields
\* of the caller's request.
CursorThreaded ==
  \A t \in Tasks :
    IsSearch(t)
    => \A i \in 1..Len(CallsFor(t)) :
         /\ i > 1 => IsPage(task[t].outcomes[i - 1])
         /\ SameButCursor(ParseJson(CallsFor(t)[i].body), task[t].op.request,
                          CursorFor(t, i))

\* No step changes the request a call was made with.
RequestKept ==
  \A t \in Tasks : task[t].op.name # "none" => task[t].op' = task[t].op

\* C13: in a searchTokens sequence the first request carries the cursor of
\* the caller's request, none when none was given, every later request
\* carries exactly the cursor of the response before it, every request
\* carries the other fields of the caller's request unchanged, and the
\* caller's request is never modified.
C13_CursorThreading == [](CursorThreaded) /\ [][RequestKept]_vars

C13_Witness ==
  \E t \in Tasks :
    /\ IsSearch(t)
    /\ task[t].op.request =
         Obj("q" :> Str("USDC") @@ "limit" :> Num(1)
             @@ "chainIds" :> Arr(<<Num(42161)>>))
    /\ Len(CallsFor(t)) = 3
    /\ ParseJson(CallsFor(t)[1].body) = task[t].op.request
    /\ PageOf(task[t].outcomes[1]) = Obj("data" :> NoTokens @@ "cursor" :> Num(0))
    /\ ParseJson(CallsFor(t)[2].body) = With(task[t].op.request, "cursor", Num(0))
    /\ PageOf(task[t].outcomes[2]) = Obj("data" :> TokA @@ "cursor" :> Num(99))
    /\ ParseJson(CallsFor(t)[3].body) = With(task[t].op.request, "cursor", Num(99))

(***************************************************************************)
(* Empty batches.                                                          *)
(***************************************************************************)
\* The i-th outcome of task t is a successful page with an empty data and
\* a cursor.
EmptyCursoredPage(t, i) ==
  /\ i <= Len(task[t].outcomes)
  /\ IsPage(task[t].outcomes[i])
  /\ DataOf(PageOf(task[t].outcomes[i])) = NoTokens
  /\ HasCursor(PageOf(task[t].outcomes[i]))

\* C14: a searchTokens page whose data is empty and which carries a cursor
\* is yielded as an empty batch and does not end the sequence: unless the
\* consumer ends it, the sequence stays suspended until the next pull, and
\* the next pull requests a further page with the cursor of the empty page.
C14_EmptyPageContinues ==
  \A t \in Tasks :
    IsSearch(t)
    => \A i \in 1..Len(task[t].outcomes) :
         EmptyCursoredPage(t, i)
         => /\ Len(task[t].pullResults) >= i
            /\ task[t].pullResults[i] = Yielded(NoTokens)
            /\ (task[t].pulls = i /\ ~task[t].stopped)
               => task[t].pc = "suspendedYield"
            /\ (task[t].pulls > i /\ ~task[t].stopped)
               => /\ Len(CallsFor(t)) > i
                  /\ Get(ParseJson(CallsFor(t)[i + 1].body), "cursor") =
                       Get(PageOf(task[t].outcomes[i]), "cursor")

C14_Witness ==
  \E t \in Tasks :
    /\ IsSearch(t)
    /\ EmptyCursoredPage(t, 1)
    /\ task[t].pulls = 2
    /\ task[t].pullResults = <<Yielded(NoTokens)>>
    /\ task[t].pc = "awaitFetch"
    /\ Len(CallsFor(t)) = 2
    /\ ParseJson(CallsFor(t)[2].body) = With(task[t].op.request, "cursor", Num(0))

(***************************************************************************)
(* Bodies that do not decode.                                              *)
(***************************************************************************)
\* The last transport exchange of task t gave a response whose body is
\* empty or is not JSON.
LastHasNoJson(t) ==
  /\ LastIsResponse(t)
  /\ LastResponse(t).body.kind \in {"empty", "invalid"}

\* C18: a response whose body is empty or is not valid JSON does not make
\* the transport call fail: the transport returns a result with the status
\* of the response, its ok flag and an undefined data; on a status in
\* 200-299 the dispatch returns undefined, on any other status it throws a
\* HyperstreamApiError with that status, a non-empty message, undefined
\* code and details, and the request id of the response.
C18_UndecodableBodyIsAbsent ==
  \A t \in Tasks :
    LastHasNoJson(t)
    => LET r == LastResponse(t)
           c == TransportProxy(Last(task[t].outcomes))
       IN /\ c = Return([status |-> r.status, data |-> Undefined, raw |-> r,
                         ok |-> (r.status \in 200..299)])
          /\ r.status \in 200..299 => task[t].dispatched = Return(Undefined)
          /\ r.status \notin 200..299
             => /\ task[t].dispatched.kind = "throw"
                /\ IsApiError(task[t].dispatched.value)
                /\ task[t].dispatched.value.status = r.status
                /\ IsAvailable(task[t].dispatched.value.message)
                /\ task[t].dispatched.value.code = Undefined
                /\ task[t].dispatched.value.details = Undefined
                /\ task[t].dispatched.value.requestId = r.requestId

C18_Witness ==
  \E t \in Tasks :
    /\ task[t].op.name = "getChains"
    /\ LastHasNoJson(t)
    /\ LastResponse(t).body = InvalidBody
    /\ LastResponse(t).status = 500
    /\ TransportProxy(Last(task[t].outcomes)).kind = "return"
    /\ task[t].result.kind = "throw"
    /\ task[t].result.value.status = 500
    /\ task[t].result.value.message = Str("Server Error")

(***************************************************************************)
(* The fields of the error of a response that is not ok.                   *)
(***************************************************************************)
\* The decoded body v is an object with a field k whose value is not null.
HasField(v, k) == v.t = "object" /\ k \in DOMAIN v.f /\ v.f[k].t # "null"

\* C19: for every response with a status outside 200-299, whatever its body
\* and headers, the dispatch throws one HyperstreamApiError whose status is
\* the status of the response, whose code is the code field of the decoded
\* body when it has one and undefined otherwise, whose details is the
\* details field of the decoded body when it has one and the whole decoded
\* body otherwise, and whose requestId is the x-request-id header of the
\* response when it is set and null otherwise.
C19_ErrorFields ==
  \A t \in Tasks :
    (LastIsResponse(t) /\ LastResponse(t).status \notin 200..299)
    => LET r == LastResponse(t)
           body == Decoded(r)
           e == task[t].dispatched.value
       IN /\ task[t].dispatched.kind = "throw"
          /\ IsApiError(e)
          /\ e.status = r.status
          /\ e.code = IF HasField(body, "code") THEN body.f["code"] ELSE Undefined
          /\ e.details = IF HasField(body, "details") THEN body.f["details"]
                         ELSE body
          /\ e.requestId = r.requestId
          /\ e.requestId # Undefined
          /\ ThrownTo(t) \subseteq {e}

C19_Witness ==
  \E t \in Tasks :
    /\ task[t].op.name = "quotes"
    /\ LastIsResponse(t)
    /\ LastResponse(t).status = 400
    /\ LastResponse(t).requestId = Str("req-1")
    /\ Decoded(LastResponse(t)) =
         Obj("message" :> Str("") @@ "error" :> Str("Bad")
             @@ "details" :> Str("why"))
    /\ task[t].result.kind = "throw"
    /\ task[t].result.value.code = Undefined
    /\ task[t].result.value.details = Str("why")
    /\ task[t].result.value.requestId = Str("req-1")

(***************************************************************************)
(* The path of a dispatched request.                                       *)
(***************************************************************************)
IsDispatch(t) == task[t].op.name = "dispatchRequest"

\* s up to its first "?" piece.
RECURSIVE BeforeQuery(_)
BeforeQuery(s) ==
  IF s = <<>> \/ Head(s) = "?" THEN <<>> ELSE <<Head(s)>> \o BeforeQuery(Tail(s))

\* s without its leading slashes.
RECURSIVE StripLeadingSlashes(_)
StripLeadingSlashes(s) ==
  IF s # <<>> /\ Head(s) = "/" THEN StripLeadingSlashes(Tail(s)) ELSE s

\* The path of the url of a fetch call: what follows the base address, up
\* to the query.
PathOf(call) ==
  BeforeQuery(SubSeq(call.url, Len(client.baseURL) + 1, Len(call.url)))

IsFetchOp(t) == task[t].op.name \in FetchMethods

\* The headers given with the call of task t.
CallHeadersOf(t) ==
  IF IsDispatch(t) THEN task[t].op.request.headers
  ELSE task[t].op.request.init.headers

\* The body given with the call of task t.
CallBodyOf(t) == task[t].op.request.body

\* The headers the library sets itself on the request call: Accept by the
\* dispatcher, Content-Type on a POST or PUT.
Automatic(t, call) ==
  (IF IsDispatch(t) THEN {"Accept"} ELSE {})
  \cup (IF call.method \in {"POST", "PUT"} THEN {"Content-Type"} ELSE {})

WithoutUndefined(v) ==
  IF v.t = "object"
    THEN Obj([k \in {n \in DOMAIN v.f : v.f[n] # Undefined} |-> v.f[k]])
    ELSE v

\* C17: every request sent with the method POST or PUT has as body a JSON
\* text that parses to the body given with the call, without the members
\* that are undefined, and carries the Content-Type of the call's headers when they
\* have one and Content-Type: application/json otherwise.
C17_JsonBody ==
  \A t \in Tasks :
    ((IsDispatch(t) \/ IsFetchOp(t)) /\ CallsFor(t) # <<>>
       /\ CallsFor(t)[1].method \in {"POST", "PUT"})
    => LET call == CallsFor(t)[1]
           given == CallHeadersOf(t)
       IN /\ call.body.t = "jsontext"
          /\ ParseJson(call.body) = WithoutUndefined(CallBodyOf(t))
          /\ ~Unserializable(CallBodyOf(t))
          /\ call.headers["Content-Type"] =
               IF "Content-Type" \in DOMAIN given THEN given["Content-Type"]
               ELSE "application/json"

C17_Witness ==
  \E t \in Tasks :
    /\ task[t].op.name = "put"
    /\ task[t].op.request.body =
         Obj("amount" :> Str("0x10") @@ "memo" :> Undefined)
    /\ task[t].op.request.init.headers =
         ("Accept" :> "text/plain" @@ "Content-Type" :> "text/csv")
    /\ "Content-Type" \in DOMAIN client.headers
    /\ CallsFor(t) # <<>>
    /\ CallsFor(t)[1].method = "PUT"
    /\ CallsFor(t)[1].body = JsonText(Obj([k \in {"amount"} |-> Str("0x10")]))
    /\ CallsFor(t)[1].headers["Content-Type"] = "text/csv"

(***************************************************************************)
(* The same lookup, twice.                                                 *)
(***************************************************************************)
\* Task t's lookup has settled.
LookupSettled(t) == IsLookup(t) /\ task[t].pc = "settled"

\* The request of a fetch call, without the task it was made for.
RequestOf(call) ==
  [url |-> call.url, method |-> call.method, body |-> call.body,
   headers |-> call.headers]

\* C12: when getToken or getIntentByDeposit is called twice with the same
\* arguments on one client, each call makes one transport call of its own,
\* with the same request, and when the server answers both alike the two
\* calls give equal results: the same value returned or an equal error
\* thrown.
C12_LookupTwice ==
  \A t, u \in Tasks :
    /\ LookupSettled(t)
       => /\ CallsOf(t) = 1
          /\ task[t].transportCalls = 1
          /\ Len(task[t].outcomes) = 1
          /\ task[t].result.kind \in {"return", "throw"}
    /\ (t # u /\ task[t].op = task[u].op /\ IsLookup(t)
          /\ CallsFor(t) # <<>> /\ CallsFor(u) # <<>>)
       => RequestOf(CallsFor(t)[1]) = RequestOf(CallsFor(u)[1])
    /\ (t # u /\ LookupSettled(t) /\ LookupSettled(u)
          /\ task[t].op = task[u].op
          /\ task[t].outcomes = task[u].outcomes)
       => task[t].result = task[u].result

C12_Witness ==
  /\ LookupSettled(1) /\ LookupSettled(2)
  /\ task[1].op = Op("getToken", [chainId |-> 42161, identifier |-> <<"U", "S", "D", "/", "C">>])
  /\ task[2].op = task[1].op
  /\ task[1].outcomes = task[2].outcomes
  /\ LastIsResponse(1)
  /\ LastResponse(1).status = 200
  /\ task[1].result = Return(Obj([k \in {"symbol"} |-> Str("USDC")]))
  /\ task[2].result = task[1].result
  /\ Len(fetchCalls) = 2
  /\ fetchCalls[1].task # fetchCalls[2].task

(***************************************************************************)
(* The end of a searchTokens sequence.                                     *)
(***************************************************************************)
\* The generator of task t is done.
Completed(t) == task[t].pc = "completed"

\* The number of batches task t has received.
BatchCount(t) ==
  Cardinality({i \in 1..Len(task[t].pullResults) :
                 task[t].pullResults[i].kind = "yield"})

\* A sequence that is done stays done, yields no further batch and makes no
\* further transport call.
DoneIsFinal ==
  \A t \in Tasks :
    (IsSearch(t) /\ Completed(t))
    => /\ Completed(t)'
       /\ BatchCount(t)' = BatchCount(t)
       /\ CallsOf(t)' = CallsOf(t)
       /\ task[t].transportCalls' = task[t].transportCalls

\* While every page received carried a cursor the sequence is not done.
NoPageLimit ==
  \A t \in Tasks :
    (IsSearch(t) /\ CursoredPages(t, Len(task[t].outcomes))) => ~Completed(t)

\* Every searchTokens sequence gets done.
EventuallyDone == \A t \in Callers : IsSearch(t) ~> Completed(t)

\* C15: when the server answers with pages and eventually with one without
\* a cursor, and the consumer keeps pulling, the searchTokens sequence gets
\* done; once done it yields no further batch and makes no further
\* transport call on any later pull; and it is not done while every page
\* received carried a cursor, however many there were.
C15_ReachesDone == EventuallyDone /\ [][DoneIsFinal]_vars /\ [](NoPageLimit)

C15_Witness ==
  \E t \in Tasks :
    /\ IsSearch(t)
    /\ Completed(t)
    /\ Len(task[t].outcomes) = 3
    /\ CursoredPages(t, 2)
    /\ NoCursorField(PageOf(task[t].outcomes[3]))
    /\ task[t].pulls = 4
    /\ BatchCount(t) = 3
    /\ task[t].pullResults[4] = EndOfSequence
    /\ CallsOf(t) = 3

(***************************************************************************)
(* The base address of a request.                                          *)
(***************************************************************************)
\* The path and query Fetch.request was given for the call of task t.
UrlGiven(t) ==
  IF IsDispatch(t)
    THEN BuildPathWithQuery(task[t].op.request.path, task[t].op.request.query)
    ELSE task[t].op.request.url

\* C21: for every configured base address that is not empty, the URL of
\* each request is the base address without its trailing slashes followed
\* by the path (and query) of the request.
C21_BaseStripped ==
  \A config \in ClientConfigs :
    (client = Constructor(config) /\ config.baseUrl # <<>>)
    => \A t \in Tasks :
         ((IsDispatch(t) \/ IsFetchOp(t)) /\ CallsFor(t) # <<>>)
         => CallsFor(t)[1].url =
              StripTrailingSlashes(config.baseUrl) \o UrlGiven(t)

(***************************************************************************)
(* The route of getToken.                                                  *)
(***************************************************************************)
\* s is 0x followed by one or more hex digits.
MatchesHexPattern(s) ==
  \E n \in 1..Len(s) :
    /\ Len(s) = n + 2
    /\ SubSeq(s, 1, 2) = <<"0", "x">>
    /\ \A i \in 3..(n + 2) : s[i] \in HexDigits

\* /v1/tokens/{chainId}/{identifier}
ByAddressPath(chainId, identifier) ==
  <<"/", "v1", "/", "tokens", "/", ToString(chainId), "/">>
  \o EncodeURIComponent(identifier)

\* /v1/tokens/{chainId}/symbol/{identifier}
BySymbolPath(chainId, identifier) ==
  <<"/", "v1", "/", "tokens", "/", ToString(chainId), "/", "symbol", "/">>
  \o EncodeURIComponent(identifier)

\* C24: a getToken call makes one request, a GET; it goes to
\* /v1/tokens/{chainId}/{identifier} when the identifier is 0x followed by
\* one or more hex digits and to /v1/tokens/{chainId}/symbol/{identifier}
\* for every other identifier, the identifier escaped as a path segment.
C24_TokenRoute ==
  \A t \in Tasks :
    task[t].op.name = "getToken"
    => LET r == task[t].op.request IN
       /\ Len(CallsFor(t)) = 1
       /\ CallsFor(t)[1].method = "GET"
       /\ CallsFor(t)[1].url =
            client.baseURL \o
            (IF MatchesHexPattern(r.identifier)
               THEN ByAddressPath(r.chainId, r.identifier)
               ELSE BySymbolPath(r.chainId, r.identifier))

C24_Witness ==
  \E t \in Tasks :
    /\ task[t].op.name = "getToken"
    /\ task[t].op.request.identifier = <<"0", "x", "0", "Z">>
    /\ task[t].pc = "settled"
    /\ CallsFor(t)[1].url =
         <<"https://api.test.hyperstream.xyz", "/", "v1", "/", "tokens", "/",
           "42161", "/", "symbol", "/", "0", "x", "0", "Z">>

C26_IntentStatusThrows ==
  \A t \in Tasks :
    ( /\ task[t].op.name = "getIntentStatus"
      /\ LastIsResponse(t)
      /\ LastResponse(t).status \notin 200..299 )
    => /\ task[t].result.kind = "throw"
       /\ IsApiError(task[t].result.value)
       /\ task[t].result.value.status = LastResponse(t).status
       /\ task[t].result = task[t].dispatched

C26_Witness ==
  \E t \in Tasks :
    /\ task[t].op.name = "getIntentStatus"
    /\ LastIsResponse(t)
    /\ LastResponse(t).status = 404
    /\ LastResponse(t).body = EmptyBody
    /\ task[t].result.kind = "throw"
    /\ task[t].result.value.status = 404

(***************************************************************************)
(* The cursor as the signal to go on.                                      *)
(***************************************************************************)
\* The cursor of the i-th page of task t: undefined when the page has none.
CursorOfPage(t, i) == Get(PageOf(task[t].outcomes[i]), "cursor")

\* C28: after a page of a searchTokens sequence whose cursor is undefined
\* or null no further request is made and the next pull finds the sequence
\* ended; after a page with any other cursor, 0 included, the sequence is
\* not ended by the library and the next pull makes a request that carries
\* that cursor.
C28_CursorDecides ==
  \A t \in Tasks :
    IsSearch(t)
    => \A i \in 1..Len(task[t].outcomes) :
         IsPage(task[t].outcomes[i])
         => IF CursorOfPage(t, i) \in {Undefined, Null}
              THEN /\ Len(CallsFor(t)) = i
                   /\ Len(task[t].outcomes) = i
                   /\ task[t].pulls > i
                      => /\ Completed(t)
                         /\ \A j \in (i + 1)..Len(task[t].pullResults) :
                              task[t].pullResults[j] = EndOfSequence
              ELSE /\ (task[t].pulls <= i /\ ~task[t].stopped) => ~Completed(t)
                   /\ (task[t].pulls > i /\ ~task[t].stopped)
                      => /\ Len(CallsFor(t)) > i
                         /\ Get(ParseJson(CallsFor(t)[i + 1].body), "cursor") =
                              CursorOfPage(t, i)

C28_Witness ==
  \E t \in Tasks :
    /\ IsSearch(t)
    /\ Len(task[t].outcomes) = 2
    /\ IsPage(task[t].outcomes[1]) /\ IsPage(task[t].outcomes[2])
    /\ CursorOfPage(t, 1) = Num(0)
    /\ Get(ParseJson(CallsFor(t)[2].body), "cursor") = Num(0)
    /\ CursorOfPage(t, 2) = Null
    /\ task[t].pulls = 3
    /\ ~task[t].stopped
    /\ Completed(t)
    /\ task[t].pullResults[3] = EndOfSequence
    /\ Len(CallsFor(t)) = 2

(***************************************************************************)
(* One error for a failed call.                                            *)
(***************************************************************************)
\* The `new HyperstreamApiError` expressions of the dispatcher.
DispatcherSites == {"executeRequest", "normalizeTransportError"}

\* Task t's call failed: something was thrown to its caller.
CallFailed(t) == ThrownTo(t) # {}

\* The error e that reached the caller of task t is the one object the
\* dispatcher threw: the HyperstreamApiError the transport failed with when
\* it failed with one, an error made once by the dispatcher otherwise.
IsTheDispatchedError(t, e) ==
  /\ task[t].dispatched.kind = "throw"
  /\ e = task[t].dispatched.value
  /\ IsApiError(e)
  /\ IF LastIsRejection(t) /\ IsApiError(LastRejection(t))
       THEN e = LastRejection(t)
       ELSE e.site \in DispatcherSites

\* C23: a failed facade call throws one HyperstreamApiError, made by one
\* `new` of the dispatcher and thrown to the caller as that same object
\* with its fields as made; when the transport fails with an error that is
\* a HyperstreamApiError already, that same error is thrown and none is
\* made; getToken and getIntentByDeposit, when they do not return null,
\* throw the error they caught.
C23_OneErrorPerFailure ==
  \A t \in Tasks :
    CallFailed(t)
    => /\ Cardinality(ThrownTo(t)) = 1
       /\ \A e \in ThrownTo(t) : IsTheDispatchedError(t, e)

\* The same, for the calls that fail with a HyperstreamApiError.
C23_ApiErrorKept ==
  \A t \in Tasks :
    (CallFailed(t) /\ \E e \in ThrownTo(t) : IsApiError(e))
    => /\ Cardinality(ThrownTo(t)) = 1
       /\ \A e \in ThrownTo(t) : IsTheDispatchedError(t, e)

(***************************************************************************)
(* Interceptors.                                                           *)
(***************************************************************************)
\* The step in which the call of task t resumes from the await of an
\* interceptor that threw.
InterceptorFails(t) ==
  /\ task[t].pc \in {"awaitRequestInterceptor", "awaitResponseInterceptor"}
  /\ task[t].held.kind = "throw"
  /\ task'[t].pc # task[t].pc

OwnRequest(t, i) ==
  LET o == task[t].op
      request == IF o.name = "searchTokens"
                   THEN With(o.request, "cursor", CursorFor(t, i))
                   ELSE o.request
  IN FetchCall(t, ConfigOf(Op(o.name, request)))

\* Every request sent so far is the own request of its call.
SendsOwnRequests ==
  \A t \in Tasks :
    \A i \in 1..Len(CallsFor(t)) : CallsFor(t)[i] = OwnRequest(t, i)

\* C22: calls issued concurrently on one client are independent: under
\* every interleaving of their transport exchanges and whatever else is
\* done on the client, what each call sends (URL, headers, body, cursor)
\* depends only on its arguments, on the configuration of the client and
\* on the responses to its own requests; two interleaved searchTokens
\* sequences each follow their own cursor chain.
C22_Independent == SendsOwnRequests

\* As long as no interceptor is registered on the client, every call sends
\* its own requests, and a settled call gives what its own last transport
\* outcome gives.
C22_IndependentWithoutInterceptors ==
  (client.requestInterceptors = <<>> /\ client.responseInterceptors = <<>>)
  => /\ SendsOwnRequests
     /\ \A t \in Tasks :
          task[t].pc = "settled"
          => task[t].result =
               Facade(task[t].op.name, DispatchRequest(Last(task[t].outcomes)))

\* Two searchTokens sequences in flight at once, each at its second page.
C22_TwoSequences ==
  \E t, u \in Tasks :
    /\ t # u
    /\ IsSearch(t) /\ IsSearch(u)
    /\ Len(CallsFor(t)) = 2 /\ Len(CallsFor(u)) = 2
    /\ client.requestInterceptors = <<>>

====
